---- MODULE Spec2Model ----
(***************************************************************************)
(* Kernel ridge estimators of models.py: KernelRidgeRegressor,             *)
(* KernelRidgeClassifier and AugmentedHogsKernelRidgeClassifier.           *)
(*                                                                         *)
(* One estimator object is modelled.  Its attributes are the variables     *)
(* C, kernel, gamma, flip_ratio, rot_replicas, rot_ratio, rot_angle, K and *)
(* alpha; cls is its class.  The remaining variables observe the last      *)
(* call: its arguments, its outcome, the collaborators it invoked and the  *)
(* linear systems it handed to solve.                                      *)
(*                                                                         *)
(* Numbers are exact.  Features are 1-D integers, kernel values integers,  *)
(* and a solution of A x = b is kept as the rational vector num / den with *)
(* den = det(A) > 0 (Cramer's rule), so that dot products and the argmax   *)
(* over classes are computed without rounding.  C is an integer, and the   *)
(* ratios of the augmented classifier are percentages.                     *)
(*                                                                         *)
(* kernels.py and utils.py are not part of the sources at hand: the kernel *)
(* registry, the linear kernel, the HOG extractor and the augmentation     *)
(* are modelled from their contracts.  fit is explored on the prefixes of  *)
(* one sample pool with every non-decreasing label sequence up to MaxN,    *)
(* the two lengths chosen independently; predict on every sample sequence  *)
(* up to MaxM; set_params, inherited from scikit-learn's BaseEstimator, on *)
(* every keyword dictionary of up to MaxParams keys.                       *)
(***************************************************************************)
EXTENDS Integers, Sequences, FiniteSets, TLC

\* ------------------------------------------------------------- bounds
\* Largest number of samples handed to fit.
MaxN == 2
\* Largest number of samples handed to predict.
MaxM == 1
\* Largest number of keywords handed to set_params.
MaxParams == 2

\* Raw sample values (1-D) and label values the inputs are drawn from.
Samples == {0, 1}
Labels == {-1, 0, 1}

\* The training samples: the first n samples of the pool 2, 1, 2, 1, ...
Pool(n) == [i \in 1..n |-> 1 + (i % 2)]

\* ------------------------------------------------- sequences, helpers
SeqsUpTo(S, lo, hi) == UNION {[1..n -> S] : n \in lo..hi}

Range(s) == {s[i] : i \in 1..Len(s)}

RECURSIVE SortedSeq(_)
\* sorted(set(...)): the elements of a finite set of integers, ascending.
SortedSeq(S) ==
    IF S = {} THEN <<>>
    ELSE LET m == CHOOSE x \in S : \A z \in S : x <= z
         IN <<m>> \o SortedSeq(S \ {m})

RECURSIVE SumTo(_, _)
\* f[1] + ... + f[n]
SumTo(f, n) == IF n = 0 THEN 0 ELSE f[n] + SumTo(f, n - 1)

\* np.dot of two integer vectors of the same length.
Dot(u, v) == SumTo([i \in 1..Len(u) |-> u[i] * v[i]], Len(u))

\* ------------------------------------------------ exact linear algebra
\* A matrix is a sequence of rows.  Minor(A, i, j) drops row i and column j.
Minor(A, i, j) ==
    [r \in 1..(Len(A) - 1) |->
        [c \in 1..(Len(A) - 1) |->
            A[IF r < i THEN r ELSE r + 1][IF c < j THEN c ELSE c + 1]]]

RECURSIVE Det(_)
\* Determinant: written out up to 4 x 4 (for 4 x 4, by 2 x 2 minors of the
\* first two rows against the complementary minors of the last two), and by
\* expansion along the first row beyond.
Det(A) ==
    IF Len(A) = 0 THEN 1
    ELSE IF Len(A) = 1 THEN A[1][1]
    ELSE IF Len(A) = 2 THEN A[1][1] * A[2][2] - A[1][2] * A[2][1]
    ELSE IF Len(A) = 3
         THEN A[1][1] * (A[2][2] * A[3][3] - A[2][3] * A[3][2])
            - A[1][2] * (A[2][1] * A[3][3] - A[2][3] * A[3][1])
            + A[1][3] * (A[2][1] * A[3][2] - A[2][2] * A[3][1])
    ELSE IF Len(A) = 4
         THEN   (A[1][1] * A[2][2] - A[1][2] * A[2][1]) * (A[3][3] * A[4][4] - A[3][4] * A[4][3])
              - (A[1][1] * A[2][3] - A[1][3] * A[2][1]) * (A[3][2] * A[4][4] - A[3][4] * A[4][2])
              + (A[1][1] * A[2][4] - A[1][4] * A[2][1]) * (A[3][2] * A[4][3] - A[3][3] * A[4][2])
              + (A[1][2] * A[2][3] - A[1][3] * A[2][2]) * (A[3][1] * A[4][4] - A[3][4] * A[4][1])
              - (A[1][2] * A[2][4] - A[1][4] * A[2][2]) * (A[3][1] * A[4][3] - A[3][3] * A[4][1])
              + (A[1][3] * A[2][4] - A[1][4] * A[2][3]) * (A[3][1] * A[4][2] - A[3][2] * A[4][1])
    ELSE SumTo([j \in 1..Len(A) |->
                   (IF j % 2 = 1 THEN 1 ELSE -1) * A[1][j] * Det(Minor(A, 1, j))],
               Len(A))

\* The leading k x k block of A.
Leading(A, k) == [r \in 1..k |-> [c \in 1..k |-> A[r][c]]]

\* What assume_a='pos' relies on: the Cholesky factorisation of a symmetric
\* matrix exists exactly when every leading principal minor is positive.
PosDef(A) == \A k \in 1..Len(A) : Det(Leading(A, k)) > 0

\* A with column j replaced by the vector b.
ReplaceCol(A, j, b) ==
    [r \in 1..Len(A) |-> [c \in 1..Len(A) |-> IF c = j THEN b[r] ELSE A[r][c]]]

\* scipy.linalg.solve(A, b, assume_a='pos') for a 1-D b.  A row-count
\* mismatch raises ValueError, except under a 1 x 1 matrix: there a non-empty
\* b of any length is taken as that many right-hand sides and x = b / A[1][1]
\* is returned, as long as b.  A matrix that is not positive definite raises
\* LinAlgError.  Otherwise the solution is x[i] = num[i] / den (Cramer's rule).
solve(A, b) ==
    IF Len(b) # Len(A) /\ ~(Len(A) = 1 /\ Len(b) # 0)
    THEN [err |-> "ValueError", num |-> <<>>, den |-> 1]
    ELSE IF ~PosDef(A) THEN [err |-> "LinAlgError", num |-> <<>>, den |-> 1]
    ELSE IF Len(A) = 1 THEN [err |-> "none", num |-> b, den |-> A[1][1]]
    ELSE [err |-> "none",
          num |-> [i \in 1..Len(A) |-> Det(ReplaceCol(A, i, b))],
          den |-> Det(A)]

\* ------------------------------------------------------------- kernels
\* The kernel registry of kernels.py (name -> kernel class).  'rbf' is the
\* estimators' default; its values exp(-gamma d^2) are not rational, so the
\* configurations explored below use the integer-valued linear kernel.
kernels == {"rbf", "linear"}

\* Kernel names an estimator is constructed with: one registered, one not.
KernelNames == {"linear", "cosine"}

\* The similarity function of a kernel kind between two 1-D samples.
k_fn(kind, g, a, b) == a * b

\* kernels[name](X, gamma): the Kernel instance, owning the training set.
NewKernel(name, X, g) == [none |-> FALSE, kind |-> name, X |-> X, gamma |-> g]

\* Kernel.similarity_matrix(): the N x N matrix of pairwise similarities.
similarity_matrix(Kobj) ==
    [i \in 1..Len(Kobj.X) |->
        [j \in 1..Len(Kobj.X) |-> k_fn(Kobj.kind, Kobj.gamma, Kobj.X[i], Kobj.X[j])]]

\* Kernel.similarity(x): similarity of x to every training sample.
similarity(Kobj, x) ==
    [i \in 1..Len(Kobj.X) |-> k_fn(Kobj.kind, Kobj.gamma, x, Kobj.X[i])]

\* A lookup that falls back to the default kernel instead of raising.
KernelLookupWithDefault(name) ==
    [err |-> "none", kind |-> IF name \in kernels THEN name ELSE "rbf"]

\* kernels[self.kernel]: a dict subscript, KeyError for a missing name.
KernelLookup(name) ==
    IF name \in kernels THEN [err |-> "none", kind |-> name]
    ELSE [err |-> "KeyError", kind |-> name]

\* ---------------------------------------------------- label binarizer
\* LabelBinarizer(pos_label=1, neg_label=-1).fit_transform(y): classes_ is
\* sorted(unique(y)).  Three or more classes give one +1/-1 column per class;
\* two classes give ONE column, +1 for the second class; a single class gives
\* one column of -1.
Classes(y) == SortedSeq(Range(y))

LabelBinarizer(y) ==
    LET cs == Classes(y)
    IN IF Len(cs) = 1 THEN [n \in 1..Len(y) |-> <<-1>>]
       ELSE IF Len(cs) = 2
            THEN [n \in 1..Len(y) |-> <<IF y[n] = cs[2] THEN 1 ELSE -1>>]
       ELSE [n \in 1..Len(y) |->
               [c \in 1..Len(cs) |-> IF y[n] = cs[c] THEN 1 ELSE -1]]

\* Number of columns of a binarized label matrix.
NCols(Y) == Len(Y[1])

\* Y[:, c] with numpy's indexing: columns are numbered from 0, a negative c
\* counts from the end, anything outside -ncols..ncols-1 raises IndexError.
Column(Y, c) ==
    IF c >= NCols(Y) \/ c < 0 - NCols(Y) THEN [err |-> "IndexError", col |-> <<>>]
    ELSE [err |-> "none",
          col |-> [n \in 1..Len(Y) |-> Y[n][(IF c < 0 THEN c + NCols(Y) ELSE c) + 1]]]

\* ---------------------------------------------------- regularisation
\* A regularisation that adds C, not C * len(X), to the diagonal.
RegularizeWithoutN(Kmat, c, n) ==
    [i \in 1..Len(Kmat) |->
        [j \in 1..Len(Kmat) |-> Kmat[i][j] + (IF i = j THEN c ELSE 0)]]

\* diag = zeros_like(K); fill_diagonal(diag, C * len(X)); K += diag
Regularize(Kmat, c, n) ==
    [i \in 1..Len(Kmat) |->
        [j \in 1..Len(Kmat) |-> Kmat[i][j] + (IF i = j THEN c * n ELSE 0)]]

\* ------------------------------------------------------ preprocessing
\* HOGExtractor.transform on one raw sample: deterministic, stateless.
hog(x) == x + 1

\* HOGExtractor.transform(X): one feature per sample, same order.
transform(X) == [i \in 1..Len(X) |-> hog(X[i])]

\* Horizontal flip and rotation of a raw sample (values 0..2).
flip(x) == 2 - x

rotate(x, angle) == x

\* Number of samples a ratio (in percent) selects out of n.
Selected(n, ratio) == (n * ratio) \div 100

\* The random draws augment_dataset can make on n samples: which samples are
\* flipped and which are rotated (one draw per rotation replica, merged).
AugDraws(self, n) ==
    {[flip |-> F, rot |-> R] :
        F \in {S \in SUBSET (1..n) : Cardinality(S) = Selected(n, self.flip_ratio)},
        R \in {S \in SUBSET (1..n) :
                 Cardinality(S) = IF self.rot_replicas > 0
                                  THEN Selected(n, self.rot_ratio) ELSE 0}}

\* augment_dataset(X, y, flip_ratio, rot_replicas, rot_ratio, rot_angle) under
\* draw d: the original samples, then the flipped, then the rotated ones, each
\* new sample with the label of its source.  Lengths that disagree raise.
augment_dataset(X, y, angle, d) ==
    IF Len(X) # Len(y) THEN [err |-> "ValueError", X |-> X, y |-> y]
    ELSE LET fs == SortedSeq(d.flip)
             rs == SortedSeq(d.rot)
         IN [err |-> "none",
             X |-> X \o [i \in 1..Len(fs) |-> flip(X[fs[i]])]
                     \o [i \in 1..Len(rs) |-> rotate(X[rs[i]], angle)],
             y |-> y \o [i \in 1..Len(fs) |-> y[fs[i]]]
                     \o [i \in 1..Len(rs) |-> y[rs[i]]]]

\* ------------------------------------------------------ the estimator
VARIABLES
    cls,     \* the estimator's class
    self,    \* its attributes: C, kernel, gamma, flip_ratio, rot_replicas,
             \* rot_ratio, rot_angle, K, alpha
    call,    \* the last call: [op, X]
    ret,     \* its outcome: [raised, value]
    calls,   \* the collaborators it invoked, in order
    solves,  \* the systems [A, b] it passed to solve, in order
    alphaBy, \* the training set [X, y], as handed to the kernel and the label
             \* binarizer, of the fit that last assigned self.alpha
    sameFit, \* self.K and self.alpha were last assigned by the same fit call
    fitted   \* [ever, last]: some fit returned; the fit that last assigned
             \* self.alpha returned

vars == <<cls, self, call, ret, calls, solves, alphaBy, sameFit, fitted>>

Regressor == "KernelRidgeRegressor"
Classifier == "KernelRidgeClassifier"
Augmented == "AugmentedHogsKernelRidgeClassifier"

\* self.K = None, self.alpha = None
NoneK == [none |-> TRUE, kind |-> "", X |-> <<>>, gamma |-> 0]
NoneAlpha == [none |-> TRUE, rows |-> <<>>]
NoFit == [X |-> <<>>, y |-> <<>>]

\* Constructor arguments.  Ratios are percentages; the defaults of the
\* signature are C=1, gamma=10, rot_replicas=1, rot_ratio=20, rot_angle=20.
CValues == {0, 1}
FlipRatios == {0, 50}
DefaultGamma == 10
DefaultRotReplicas == 1
DefaultRotRatio == 20
DefaultRotAngle == 20

\* __init__: stores the arguments, K and alpha are None.  Nothing is looked
\* up or validated.
init(c, name, g, fr, rr, rt, ra) ==
    [C |-> c, kernel |-> name, gamma |-> g, flip_ratio |-> fr,
     rot_replicas |-> rr, rot_ratio |-> rt, rot_angle |-> ra,
     K |-> NoneK, alpha |-> NoneAlpha]

Init ==
    /\ cls \in {Regressor, Classifier, Augmented}
    /\ \E c \in CValues, name \in KernelNames, fr \in FlipRatios :
          self = init(c, name, DefaultGamma,
                      IF cls = Augmented THEN fr ELSE 0,
                      IF cls = Augmented THEN DefaultRotReplicas ELSE 0,
                      IF cls = Augmented THEN DefaultRotRatio ELSE 0,
                      IF cls = Augmented THEN DefaultRotAngle ELSE 0)
    /\ call = [op |-> "__init__", X |-> <<>>]
    /\ ret = [raised |-> "none", value |-> <<>>]
    /\ calls = <<>>
    /\ solves = <<>>
    /\ alphaBy = NoFit
    /\ sameFit = FALSE
    /\ fitted = [ever |-> FALSE, last |-> FALSE]

\* ----------------------------------------------------------------- fit
\* The outcome of a method: the object afterwards, what was raised ("none"
\* when it returned), the returned value, the collaborators invoked, the
\* systems passed to solve, and which of K / alpha were assigned, from which
\* training set.
Outcome(s, raised, value, cs, sv, setK, setAlpha, X, y) ==
    [self |-> s, raised |-> raised, value |-> value, calls |-> cs, solves |-> sv,
     setK |-> setK, setAlpha |-> setAlpha, train |-> [X |-> X, y |-> y]]

\* KernelRidgeRegressor.fit(X, y)
KernelRidgeRegressor_fit(s, X, y) ==
    LET lk == KernelLookup(s.kernel)
    IN IF lk.err # "none"
       THEN Outcome(s, lk.err, <<>>, <<"kernels">>, <<>>, FALSE, FALSE, X, y)
       ELSE LET Kobj == NewKernel(lk.kind, X, s.gamma)
                A == Regularize(similarity_matrix(Kobj), s.C, Len(X))
                r == solve(A, y)
                s1 == [s EXCEPT !.K = Kobj]
                cs == <<"kernels", "similarity_matrix", "solve">>
                sv == <<[A |-> A, b |-> y]>>
            IN IF r.err # "none"
               THEN Outcome(s1, r.err, <<>>, cs, sv, TRUE, FALSE, X, y)
               ELSE Outcome([s1 EXCEPT !.alpha =
                                [none |-> FALSE,
                                 rows |-> <<[num |-> r.num, den |-> r.den]>>]],
                            "none", <<>>, cs, sv, TRUE, TRUE, X, y)

RECURSIVE OneVsAll(_, _, _, _, _)
\* for c in sorted(set(y)): self.alpha.append(solve(K, Y[:, c], assume_a='pos'))
\* cs: the classes still to do; rows, sv: the coefficients appended and the
\* systems solved so far.  The class VALUE c is used as the column index.
OneVsAll(A, Y, cs, rows, sv) ==
    IF cs = <<>> THEN [err |-> "none", rows |-> rows, solves |-> sv]
    ELSE LET col == Column(Y, Head(cs))
         IN IF col.err # "none"
            THEN [err |-> col.err, rows |-> rows, solves |-> sv]
            ELSE LET r == solve(A, col.col)
                     sv1 == Append(sv, [A |-> A, b |-> col.col])
                 IN IF r.err # "none"
                    THEN [err |-> r.err, rows |-> rows, solves |-> sv1]
                    ELSE OneVsAll(A, Y, Tail(cs),
                                  Append(rows, [num |-> r.num, den |-> r.den]), sv1)

\* The body shared by both classifiers' fit, from the label binarizer on;
\* pre: the collaborators invoked before it.
ClassifierFitBody(s, X, y, pre) ==
    LET Y == LabelBinarizer(y)
        lk == KernelLookup(s.kernel)
    IN IF lk.err # "none"
       THEN Outcome(s, lk.err, <<>>, pre \o <<"LabelBinarizer", "kernels">>, <<>>,
                    FALSE, FALSE, X, y)
       ELSE LET Kobj == NewKernel(lk.kind, X, s.gamma)
                A == Regularize(similarity_matrix(Kobj), s.C, Len(X))
                r == OneVsAll(A, Y, Classes(y), <<>>, <<>>)
                cs == pre \o <<"LabelBinarizer", "kernels", "similarity_matrix">>
                          \o [i \in 1..Len(r.solves) |-> "solve"]
            IN Outcome([s EXCEPT !.K = Kobj,
                                 !.alpha = [none |-> FALSE, rows |-> r.rows]],
                       r.err, <<>>, cs, r.solves, TRUE, TRUE, X, y)

\* KernelRidgeClassifier.fit(X, y)
KernelRidgeClassifier_fit(s, X, y) == ClassifierFitBody(s, X, y, <<>>)

\* AugmentedHogsKernelRidgeClassifier.fit(X, y), under augmentation draw d
AugmentedHogsKernelRidgeClassifier_fit(s, X, y, d) ==
    LET aug == augment_dataset(X, y, s.rot_angle, d)
    IN IF aug.err # "none"
       THEN Outcome(s, aug.err, <<>>, <<"augment_dataset">>, <<>>, FALSE, FALSE, X, y)
       ELSE ClassifierFitBody(s, transform(aug.X), aug.y,
                              <<"augment_dataset", "transform">>)

\* Inputs of fit: X a prefix of the pool, y a label sequence in
\* non-decreasing order, their lengths independent.
FitX == {Pool(n) : n \in 1..MaxN}
FitY ==
    {y \in SeqsUpTo(Labels, 1, MaxN) : \A i \in 1..(Len(y) - 1) : y[i] <= y[i + 1]}

\* The state after a call with outcome o; X is recorded for predict.
Return(op, X, o) ==
    /\ self' = o.self
    /\ call' = [op |-> op, X |-> X]
    /\ ret' = [raised |-> o.raised, value |-> o.value]
    /\ calls' = o.calls
    /\ solves' = o.solves
    /\ alphaBy' = IF o.setAlpha THEN o.train ELSE alphaBy
    /\ sameFit' = IF o.setK \/ o.setAlpha THEN o.setK /\ o.setAlpha ELSE sameFit
    /\ fitted' = [ever |-> fitted.ever \/ (op = "fit" /\ o.raised = "none"),
                  last |-> IF o.setAlpha THEN o.raised = "none" ELSE fitted.last]
    /\ UNCHANGED cls

FitRegressor ==
    /\ cls = Regressor
    /\ \E X \in FitX, y \in FitY :
          \E o \in {KernelRidgeRegressor_fit(self, X, y)} :
             Return("fit", <<>>, o)

FitClassifier ==
    /\ cls = Classifier
    /\ \E X \in FitX, y \in FitY :
          \E o \in {KernelRidgeClassifier_fit(self, X, y)} :
             Return("fit", <<>>, o)

FitAugmented ==
    /\ cls = Augmented
    /\ \E X \in FitX, y \in FitY :
          \E d \in AugDraws(self, Len(X)) :
             \E o \in {AugmentedHogsKernelRidgeClassifier_fit(self, X, y, d)} :
             Return("fit", <<>>, o)

\* ------------------------------------------------------------- predict
\* np.dot(alpha, similarity) for one coefficient vector num / den.
Score(row, sim) == [num |-> Dot(row.num, sim), den |-> row.den]

\* a > b for two rationals with positive denominators.
Greater(a, b) == a.num * b.den > b.num * a.den

RECURSIVE ArgMaxLast(_, _, _)
\* A scan that keeps the LAST maximum: a tie replaces the best so far.
ArgMaxLast(sc, i, best) ==
    IF i > Len(sc) THEN best
    ELSE ArgMaxLast(sc, i + 1, IF Greater(sc[best], sc[i]) THEN best ELSE i)

RECURSIVE ArgMaxFrom(_, _, _)
\* The scan of np.argmax: position i replaces the best so far only when its
\* score is strictly greater.
ArgMaxFrom(sc, i, best) ==
    IF i > Len(sc) THEN best
    ELSE ArgMaxFrom(sc, i + 1, IF Greater(sc[i], sc[best]) THEN i ELSE best)

\* np.argmax(sc): the 0-based index of the first maximum.
argmax(sc) == ArgMaxFrom(sc, 2, 1) - 1

\* What evaluating the loop body on a sample raises in state s, if anything:
\* None has no attribute 'similarity'; np.dot with None and iterating None are
\* TypeErrors; np.argmax of an empty list and np.dot of vectors of different
\* lengths are ValueErrors.  It does not depend on the sample.
BodyError(s, classifier) ==
    IF s.K.none THEN "AttributeError"
    ELSE IF s.alpha.none THEN "TypeError"
    ELSE IF classifier /\ s.alpha.rows = <<>> THEN "ValueError"
    ELSE IF \E i \in 1..Len(s.alpha.rows) :
               Len(s.alpha.rows[i].num) # Len(s.K.X) THEN "ValueError"
    ELSE "none"

\* The collaborators one predict loop invokes on m samples.
LoopCalls(s, m, err) ==
    IF err = "none" THEN [i \in 1..m |-> "similarity"]
    ELSE IF s.K.none THEN <<>> ELSE <<"similarity">>

\* A predict that drops the coefficients once it has used them.
KernelRidgeRegressor_predict_consuming(s, X) ==
    LET err == IF X = <<>> THEN "none" ELSE BodyError(s, FALSE)
    IN Outcome([s EXCEPT !.alpha = NoneAlpha], err,
               IF err # "none" THEN <<>>
               ELSE [m \in 1..Len(X) |-> Score(s.alpha.rows[1], similarity(s.K, X[m]))],
               LoopCalls(s, Len(X), err), <<>>, FALSE, FALSE, <<>>, <<>>)

\* KernelRidgeRegressor.predict(X)
KernelRidgeRegressor_predict(s, X) ==
    LET err == IF X = <<>> THEN "none" ELSE BodyError(s, FALSE)
    IN Outcome(s, err,
               IF err # "none" THEN <<>>
               ELSE [m \in 1..Len(X) |-> Score(s.alpha.rows[1], similarity(s.K, X[m]))],
               LoopCalls(s, Len(X), err), <<>>, FALSE, FALSE, <<>>, <<>>)

\* The loop shared by both classifiers' predict; pre: the collaborators
\* invoked before it.
ClassifierPredictLoop(s, X, pre) ==
    LET err == IF X = <<>> THEN "none" ELSE BodyError(s, TRUE)
    IN Outcome(s, err,
               IF err # "none" THEN <<>>
               ELSE [m \in 1..Len(X) |->
                       argmax([i \in 1..Len(s.alpha.rows) |->
                                  Score(s.alpha.rows[i], similarity(s.K, X[m]))])],
               pre \o LoopCalls(s, Len(X), err), <<>>, FALSE, FALSE, <<>>, <<>>)

\* KernelRidgeClassifier.predict(X)
KernelRidgeClassifier_predict(s, X) == ClassifierPredictLoop(s, X, <<>>)

\* A predict that repeats fit's preprocessing, augmentation included.
AugmentedHogsKernelRidgeClassifier_predict_augmenting(s, X) ==
    ClassifierPredictLoop(s, transform(X), <<"augment_dataset", "transform">>)

\* AugmentedHogsKernelRidgeClassifier.predict(X)
AugmentedHogsKernelRidgeClassifier_predict(s, X) ==
    ClassifierPredictLoop(s, transform(X), <<"transform">>)

\* Inputs of predict.
PredictX == SeqsUpTo(Samples, 0, MaxM)

PredictRegressor ==
    /\ cls = Regressor
    /\ \E X \in PredictX :
          \E o \in {KernelRidgeRegressor_predict(self, X)} :
             Return("predict", X, o)

PredictClassifier ==
    /\ cls = Classifier
    /\ \E X \in PredictX :
          \E o \in {KernelRidgeClassifier_predict(self, X)} :
             Return("predict", X, o)

PredictAugmented ==
    /\ cls = Augmented
    /\ \E X \in PredictX :
          \E o \in {AugmentedHogsKernelRidgeClassifier_predict(self, X)} :
             Return("predict", X, o)

\* ---------------------------------------------------------- set_params
\* BaseEstimator._get_param_names: the parameters of the class's __init__
\* signature.  K, alpha and hog_extractor are attributes, not parameters.
_get_param_names(c) ==
    IF c = Augmented
    THEN {"C", "kernel", "gamma", "flip_ratio", "rot_replicas", "rot_ratio",
          "rot_angle"}
    ELSE {"C", "kernel", "gamma"}

RECURSIVE set_params(_, _, _)
\* BaseEstimator.set_params(**params), inherited by the three classes; params
\* is the keyword dictionary in call order, <<[key, num, str], ...>>, the value
\* of a key being its str for kernel and its num otherwise.  Each valid
\* key is assigned with setattr as it is met; the first key that is not a
\* parameter raises ValueError, the keys before it staying assigned.  Nothing
\* is validated or looked up, and K and alpha are not touched.
set_params(c, s, params) ==
    IF params = <<>>
    THEN Outcome(s, "none", <<>>, <<>>, <<>>, FALSE, FALSE, <<>>, <<>>)
    ELSE IF Head(params).key \notin _get_param_names(c)
    THEN Outcome(s, "ValueError", <<>>, <<>>, <<>>, FALSE, FALSE, <<>>, <<>>)
    ELSE set_params(c, [s EXCEPT ![Head(params).key] =
                                    IF Head(params).key = "kernel"
                                    THEN Head(params).str ELSE Head(params).num],
                    Tail(params))

\* Inputs of set_params: keyword dictionaries of up to MaxParams distinct keys
\* among C, kernel and flip_ratio (not a parameter of the two plain classes).
ParamItems ==
    {[key |-> "C", num |-> c, str |-> ""] : c \in CValues}
    \cup {[key |-> "kernel", num |-> 0, str |-> name] : name \in KernelNames}
    \cup {[key |-> "flip_ratio", num |-> fr, str |-> ""] : fr \in FlipRatios}

ParamDicts ==
    {p \in SeqsUpTo(ParamItems, 0, MaxParams) :
        \A i, j \in 1..Len(p) : i # j => p[i].key # p[j].key}

SetParams ==
    \E params \in ParamDicts :
       \E o \in {set_params(cls, self, params)} :
          Return("set_params", <<>>, o)

Next ==
    \/ FitRegressor
    \/ FitClassifier
    \/ FitAugmented
    \/ PredictRegressor
    \/ PredictClassifier
    \/ PredictAugmented
    \/ SetParams

Spec == Init /\ [][Next]_vars

\* -------------------------------------------------------------- claims
IsClassifier == cls \in {Classifier, Augmented}

\* The last call was a fit that got as far as assigning self.alpha, so that
\* alphaBy is its training set.
FitAssigned == call.op = "fit" /\ sameFit /\ ~self.alpha.none

\* The scores predict compares for the sample x: one per stored coefficient
\* vector, on the feature the class extracts from x.
ScoresOf(x) ==
    LET f == IF cls = Augmented THEN hog(x) ELSE x
    IN [i \in 1..Len(self.alpha.rows) |-> Score(self.alpha.rows[i], similarity(self.K, f))]

\* i attains the maximum of the scores sc.
AttainsMax(sc, i) == \A j \in 1..Len(sc) : ~Greater(sc[j], sc[i])

\* C1: a classifier fit on a training set with two or more distinct classes
\* (registered kernel, C > 0, as many labels as samples) returns and stores
\* exactly one coefficient vector of length N per class.
C1_FitStoresOneVectorPerClass ==
    (/\ cls = Classifier
     /\ FitAssigned
     /\ self.kernel \in kernels
     /\ self.C > 0
     /\ Len(alphaBy.X) = Len(alphaBy.y)
     /\ Cardinality(Range(alphaBy.y)) >= 2)
    => /\ ret.raised = "none"
       /\ Len(self.alpha.rows) = Cardinality(Range(alphaBy.y))
       /\ \A i \in 1..Len(self.alpha.rows) :
             Len(self.alpha.rows[i].num) = Len(alphaBy.X)

\* C2 as stated: an estimator configured with a kernel name that is not in
\* the registry never gets as far as a fit call.
C2_UnknownKernelNeverReachesFit ==
    call.op = "fit" => self.kernel \in kernels

\* C2 as amended: the constructor (and set_params) accept a kernel name that
\* is not in the registry; every fit of an estimator holding such a name
\* raises, with KeyError once the registry lookup is reached, solves nothing
\* and assigns no attribute: K and alpha stay as they were.
C2_UnknownKernelFailsInFit ==
    [][(call'.op = "fit" /\ self.kernel \notin kernels) =>
          /\ ret'.raised # "none"
          /\ "kernels" \in Range(calls') => ret'.raised = "KeyError"
          /\ solves' = <<>>
          /\ self' = self]_vars

C2_Witness ==
    /\ self.kernel \notin kernels
    /\ call.op = "fit"
    /\ ret.raised = "KeyError"

\* C3: every value a classifier's predict returns, after a fit that
\* returned, is one of the labels of the training set.
C3_PredictReturnsTrainingLabels ==
    (/\ IsClassifier
     /\ call.op = "predict"
     /\ ret.raised = "none"
     /\ sameFit /\ fitted.last)
    => \A m \in 1..Len(ret.value) : ret.value[m] \in Range(alphaBy.y)

\* C4: after a classifier fit that returned, the i-th system solved has the
\* one-vs-all target of the i-th class in sorted order: +1 exactly at the
\* samples of that class, -1 elsewhere.
C4_TargetIsSortedClass ==
    (IsClassifier /\ FitAssigned /\ ret.raised = "none")
    => /\ Len(solves) = Len(Classes(alphaBy.y))
       /\ \A i \in 1..Len(solves) :
             solves[i].b = [n \in 1..Len(alphaBy.y) |->
                               IF alphaBy.y[n] = Classes(alphaBy.y)[i] THEN 1 ELSE -1]

\* C5: predict on an estimator on which no fit has ever returned raises,
\* whatever X is.
C5_PredictBeforeFitRaises ==
    (call.op = "predict" /\ ~fitted.ever) => ret.raised # "none"

\* C6: a classifier's prediction for a sample is the lowest index among the
\* coefficient vectors whose score is the maximum.
C6_TieGoesToLowestIndex ==
    (IsClassifier /\ call.op = "predict" /\ ret.raised = "none")
    => \A m \in 1..Len(call.X) :
          LET sc == ScoresOf(call.X[m])
          IN /\ ret.value[m] + 1 \in 1..Len(sc)
             /\ AttainsMax(sc, ret.value[m] + 1)
             /\ \A i \in 1..Len(sc) : AttainsMax(sc, i) => ret.value[m] + 1 <= i

C6_Witness ==
    /\ IsClassifier /\ call.op = "predict" /\ ret.raised = "none"
    /\ \E m \in 1..Len(call.X) :
          LET sc == ScoresOf(call.X[m])
          IN \E i, j \in 1..Len(sc) :
                i < j /\ AttainsMax(sc, i) /\ AttainsMax(sc, j) /\ ret.value[m] = i - 1

\* C7: augmentation is invoked only by the augmented classifier's fit, as
\* its first step and before every feature extraction; its predict invokes
\* feature extraction and never augmentation.
C7_AugmentOnlyInFit ==
    /\ \A i \in 1..Len(calls) :
          calls[i] = "augment_dataset" =>
             /\ cls = Augmented /\ call.op = "fit"
             /\ \A j \in 1..Len(calls) : calls[j] = "transform" => i < j
    /\ (cls = Augmented /\ call.op = "fit") => calls[1] = "augment_dataset"
    /\ (cls = Augmented /\ call.op = "predict") =>
          /\ "transform" \in Range(calls)
          /\ "augment_dataset" \notin Range(calls)

C7_Witness ==
    /\ cls = Augmented /\ call.op = "predict" /\ ret.raised = "none"
    /\ call.X # <<>>
    /\ sameFit /\ fitted.last
    /\ Len(alphaBy.X) > MaxN

\* C8: K and alpha are both None, or were assigned by one fit call that
\* returned.
C8_ModelIsAbsentOrWhole ==
    \/ self.K.none /\ self.alpha.none
    \/ sameFit /\ fitted.last

\* C9: a predict call leaves every attribute of the estimator (the
\* hyperparameters, K and alpha) as it was.
C9_PredictOnlyReads ==
    [][call'.op = "predict" => self' = self /\ cls' = cls]_vars

C9_Witness ==
    /\ call.op = "predict" /\ ret.raised = "none"
    /\ call.X # <<>>
    /\ sameFit /\ fitted.last

\* C10: every system a fit passes to solve is the similarity matrix of the
\* kernel's N samples with C * N added to each diagonal entry and nothing
\* added elsewhere, the same for every class.
C10_SystemIsKPlusCNI ==
    call.op = "fit" =>
       \A i \in 1..Len(solves) :
          LET A == solves[i].A
              N == Len(self.K.X)
          IN /\ ~self.K.none
             /\ Len(A) = N
             /\ \A r, c \in 1..N :
                   A[r][c] = k_fn(self.K.kind, self.K.gamma, self.K.X[r], self.K.X[c])
                             + (IF r = c THEN self.C * N ELSE 0)
             /\ A = solves[1].A

C10_Witness ==
    /\ call.op = "fit" /\ ret.raised = "none"
    /\ Len(solves) >= 2
    /\ self.C > 0
    /\ Len(self.K.X) >= 2
    /\ solves[2].A[1][2] # 0

====
